---- MODULE Spec2Model ----
(***************************************************************************)
(* voki-toki: the WebSocket relay of server/index.js (the room registry,   *)
(* the relay router and the three per-connection event handlers), and the  *)
(* browser client of client/src/App.jsx (the capture pipeline and the      *)
(* playback queue).  Spec is the relay, CaptureSpec the capture pipeline   *)
(* of one client, PlaybackSpec one sender, the relay and the playback      *)
(* queue of the receiver paired with it.                                   *)
(*                                                                         *)
(* Node runs every event handler to completion on one thread, so each      *)
(* handler is one atomic action.  A connection object is a number of       *)
(* Sockets; a JS string is a sequence of one-character strings; a JS Set   *)
(* is a duplicate-free sequence in insertion order (the order in which     *)
(* `for (const peer of members)` visits it); a JS Map is a function whose  *)
(* DOMAIN is its key set.                                                  *)
(***************************************************************************)
EXTENDS Integers, Sequences, FiniteSets, TLC

VARIABLES
  readyState,    \* socket.readyState of every connection object
  rooms,         \* const rooms = new Map()         room id -> Set of sockets
  socketToRoom,  \* const socketToRoom = new Map()  socket  -> room id
  sent,          \* the frames the last event handler handed to socket.send, in order
  last,          \* the last event handled, with the registry as it was before it
  trail          \* the join / leave / join episode of one connection in progress

\* The capture pipeline of one browser client (client/src/App.jsx).
VARIABLES
  wsReadyState,   \* wsRef.current.readyState
  hasFormat,      \* supportedTypes.length > 0
  isRecording,    \* the React state isRecording
  seenRecording,  \* isRecording as the handlers of the last render captured it
  sessions,       \* one record per getUserMedia call of startRecording
  recorderRef,    \* recorderRef.current: a session number, NoRef for null
  streamRef,      \* streamRef.current: a session number, NoRef for null
  wire            \* the frames the client's socket transmitted, in order

\* One sender, the relay and the playback side of one receiver.
VARIABLES
  uplink,           \* frames the sender's socket sent, not yet handled by the relay
  downlink,         \* frames the relay sent to the receiver, not yet dispatched
  chunksSent,       \* number of chunks the sender has sent; chunk n is the n-th
  controlsSent,     \* number of text frames the sender has sent
  incomingMeta,     \* incomingMeta.mimeType (React state)
  incomingMetaRef,  \* incomingMetaRef.current.mimeType
  heard,            \* mime type of the last audio-config onmessage was given
  playQueue,        \* the promises chained on playQueueRef.current, oldest first
  played            \* the chunks whose playback began, in the order it began

serverVars == <<readyState, rooms, socketToRoom, sent, last, trail>>

playbackVars == <<uplink, downlink, chunksSent, controlsSent, incomingMeta,
                  incomingMetaRef, heard, playQueue, played>>

captureVars == <<wsReadyState, hasFormat, isRecording, seenRecording,
                 sessions, recorderRef, streamRef, wire>>

\* Everything but the capture pipeline.
beyondCapture == <<serverVars, playbackVars>>

vars == <<serverVars, captureVars, playbackVars>>

\* Number of connection objects the server ever accepts.
NumSockets == 3

Sockets == 1..NumSockets

ROOM_LIMIT == 2

-----------------------------------------------------------------------------
(* JavaScript values and strings *)

Undefined == [t |-> "undefined", v |-> <<>>]
Null == [t |-> "null", v |-> <<>>]
Str(s) == [t |-> "string", v |-> s]
Num(digits) == [t |-> "number", v |-> digits]

\* !x for the values above: undefined, null and the empty string are falsy.
Falsy(x) == x.t \in {"undefined", "null"} \/ (x.t = "string" /\ x.v = <<>>)

IsSpace(ch) == ch = " "

RECURSIVE TrimStart(_)
TrimStart(s) == IF s # <<>> /\ IsSpace(Head(s)) THEN TrimStart(Tail(s)) ELSE s

RECURSIVE TrimEnd(_)
TrimEnd(s) ==
  IF s # <<>> /\ IsSpace(s[Len(s)]) THEN TrimEnd(SubSeq(s, 1, Len(s) - 1)) ELSE s

\* String.prototype.trim
Trim(s) == TrimEnd(TrimStart(s))

\* room?.trim(): undefined for undefined and null, the trimmed string for a
\* string, and a TypeError for any other value (it has no trim method).
OptionalTrim(room) ==
  IF room.t \in {"undefined", "null"} THEN [threw |-> FALSE, val |-> Undefined]
  ELSE IF room.t = "string" THEN [threw |-> FALSE, val |-> Str(Trim(room.v))]
  ELSE [threw |-> TRUE, val |-> Undefined]

-----------------------------------------------------------------------------
(* Map and Set *)

EmptyMap == [k \in {} |-> <<>>]
MapHas(m, k) == k \in DOMAIN m
MapSet(m, k, val) == [x \in DOMAIN m \cup {k} |-> IF x = k THEN val ELSE m[x]]
MapDelete(m, k) == [x \in DOMAIN m \ {k} |-> m[x]]

Range(s) == {s[i] : i \in DOMAIN s}
SetAdd(s, x) == IF x \in Range(s) THEN s ELSE Append(s, x)
SetDelete(s, x) == SelectSeq(s, LAMBDA y : y # x)

-----------------------------------------------------------------------------
(* Frames *)

\* The content of a frame: obj is what JSON.parse makes of it when it is JSON.
JSON_stringify(payload) == [json |-> TRUE, obj |-> payload]
JSON_parse(data) ==
  IF data.json THEN [threw |-> FALSE, val |-> data.obj]
  ELSE [threw |-> TRUE, val |-> Undefined]

Raw(bytes) == [json |-> FALSE, obj |-> bytes]

RoomState(room, count) ==
  [type |-> "room-state", room |-> Str(room), count |-> count, limit |-> ROOM_LIMIT]
ErrorPayload(code, message) == [type |-> "error", code |-> code, message |-> message]

\* What a client can put in the room field of a join.
RoomValues ==
  { Str(<<"a">>), Str(<<" ", "a", " ">>), Str(<<"b">>), Str(<<" ">>),
    Undefined, Num(<<"7">>) }

JoinData(room) == JSON_stringify([type |-> "join", room |-> room])
LeaveData == JSON_stringify([type |-> "leave", room |-> Undefined])
AudioConfigData == JSON_stringify([type |-> "audio-config", room |-> Undefined])
ChatData == JSON_stringify([type |-> "chat", room |-> Undefined])
AudioBytes == Raw(<<26, 69, 223, 163>>)

TextData == {JoinData(r) : r \in RoomValues}
              \cup {LeaveData, AudioConfigData, ChatData, AudioBytes}
\* A binary frame is audio, or happens to hold the bytes of a join.
BinaryData == {AudioBytes, JoinData(Str(<<"a">>))}

NoData == Raw(<<>>)

-----------------------------------------------------------------------------
(* The registry: a handler threads st = [rooms, socketToRoom, out, ret, threw] *)

Begin == [rooms |-> rooms, socketToRoom |-> socketToRoom, out |-> <<>>,
          ret |-> Undefined, threw |-> FALSE]

sendJson(out, socket, payload) ==
  IF readyState[socket] = "OPEN"
  THEN Append(out, [to |-> socket, data |-> JSON_stringify(payload), binary |-> FALSE])
  ELSE out

\* for (const peer of members) sendJson(peer, payload)
RECURSIVE sendJsonEach(_, _, _)
sendJsonEach(out, members, payload) ==
  IF members = <<>> THEN out
  ELSE sendJsonEach(sendJson(out, Head(members), payload), Tail(members), payload)

\* The rooms map after getRoomSet(room); the set returned is its entry for room.
getRoomSet(rm, room) == IF ~MapHas(rm, room) THEN MapSet(rm, room, <<>>) ELSE rm

\* The capacity test off by one: members.size > ROOM_LIMIT.
RoomIsFull_OffByOne(members) == Len(members) > ROOM_LIMIT

\* members.size >= ROOM_LIMIT
RoomIsFull(members) == Len(members) >= ROOM_LIMIT

\* leaveRoom without its socketToRoom.delete(socket).
leaveRoom_KeepsIndex(st, socket) ==
  IF ~MapHas(st.socketToRoom, socket) \/ st.socketToRoom[socket] = <<>>
  THEN [st EXCEPT !.ret = Null]
  ELSE
    LET room == st.socketToRoom[socket]
        st1 ==
          IF MapHas(st.rooms, room)
          THEN LET members == SetDelete(st.rooms[room], socket) IN
               IF Len(members) = 0
               THEN [st EXCEPT !.rooms = MapDelete(@, room)]
               ELSE [st EXCEPT !.rooms = MapSet(@, room, members),
                               !.out = sendJsonEach(@, members,
                                                    RoomState(room, Len(members)))]
          ELSE st
    IN [st1 EXCEPT !.ret = Str(room)]

\* leaveRoom without its rooms.delete(room) for a room left empty.
leaveRoom_KeepsEmptyRoom(st, socket) ==
  IF ~MapHas(st.socketToRoom, socket) \/ st.socketToRoom[socket] = <<>>
  THEN [st EXCEPT !.ret = Null]
  ELSE
    LET room == st.socketToRoom[socket]
        st1 ==
          IF MapHas(st.rooms, room)
          THEN LET members == SetDelete(st.rooms[room], socket) IN
               [st EXCEPT !.rooms = MapSet(@, room, members),
                          !.out = sendJsonEach(@, members,
                                               RoomState(room, Len(members)))]
          ELSE st
    IN [st1 EXCEPT !.socketToRoom = MapDelete(@, socket), !.ret = Str(room)]

\* leaveRoom without its members.delete(socket).
leaveRoom_KeepsMember(st, socket) ==
  IF ~MapHas(st.socketToRoom, socket) \/ st.socketToRoom[socket] = <<>>
  THEN [st EXCEPT !.ret = Null]
  ELSE
    LET room == st.socketToRoom[socket]
        st1 ==
          IF MapHas(st.rooms, room)
          THEN LET members == st.rooms[room] IN
               IF Len(members) = 0
               THEN [st EXCEPT !.rooms = MapDelete(@, room)]
               ELSE [st EXCEPT !.out = sendJsonEach(@, members,
                                                    RoomState(room, Len(members)))]
          ELSE st
    IN [st1 EXCEPT !.socketToRoom = MapDelete(@, socket), !.ret = Str(room)]

leaveRoom(st, socket) ==
  IF ~MapHas(st.socketToRoom, socket) \/ st.socketToRoom[socket] = <<>>
  THEN [st EXCEPT !.ret = Null]
  ELSE
    LET room == st.socketToRoom[socket]
        st1 ==
          IF MapHas(st.rooms, room)
          THEN LET members == SetDelete(st.rooms[room], socket) IN
               IF Len(members) = 0
               THEN [st EXCEPT !.rooms = MapDelete(@, room)]
               ELSE [st EXCEPT !.rooms = MapSet(@, room, members),
                               !.out = sendJsonEach(@, members,
                                                    RoomState(room, Len(members)))]
          ELSE st
    IN [st1 EXCEPT !.socketToRoom = MapDelete(@, socket), !.ret = Str(room)]

\* joinRoom without its leaveRoom(socket).
joinRoom_NoLeave(st, socket, room) ==
  LET trimmed == OptionalTrim(room) IN
  IF trimmed.threw THEN [st EXCEPT !.threw = TRUE]
  ELSE IF Falsy(trimmed.val)
  THEN [st EXCEPT !.out = sendJson(@, socket,
                                   ErrorPayload("invalid-room", "Room is required.")),
                  !.ret = Undefined]
  ELSE
    LET cleanRoom == trimmed.val.v
        rooms1 == getRoomSet(st.rooms, cleanRoom)
        members == rooms1[cleanRoom]
    IN IF RoomIsFull(members)
       THEN [st EXCEPT !.rooms = rooms1,
                       !.out = sendJson(@, socket,
                                        ErrorPayload("room-full", "Room is full.")),
                       !.ret = Undefined]
       ELSE LET joined == SetAdd(members, socket) IN
            [st EXCEPT !.rooms = MapSet(rooms1, cleanRoom, joined),
                       !.socketToRoom = MapSet(@, socket, cleanRoom),
                       !.out = sendJsonEach(@, joined,
                                            RoomState(cleanRoom, Len(joined))),
                       !.ret = Undefined]

\* joinRoom announcing the join to the members found in the room, before
\* members.add(socket): the joiner is not told and the count is the old one.
joinRoom_NotifyBeforeAdd(st, socket, room) ==
  LET trimmed == OptionalTrim(room) IN
  IF trimmed.threw THEN [st EXCEPT !.threw = TRUE]
  ELSE IF Falsy(trimmed.val)
  THEN [st EXCEPT !.out = sendJson(@, socket,
                                   ErrorPayload("invalid-room", "Room is required.")),
                  !.ret = Undefined]
  ELSE
    LET cleanRoom == trimmed.val.v
        st1 == leaveRoom(st, socket)
        rooms1 == getRoomSet(st1.rooms, cleanRoom)
        members == rooms1[cleanRoom]
    IN IF RoomIsFull(members)
       THEN [st1 EXCEPT !.rooms = rooms1,
                        !.out = sendJson(@, socket,
                                         ErrorPayload("room-full", "Room is full.")),
                        !.ret = Undefined]
       ELSE LET joined == SetAdd(members, socket) IN
            [st1 EXCEPT !.rooms = MapSet(rooms1, cleanRoom, joined),
                        !.socketToRoom = MapSet(@, socket, cleanRoom),
                        !.out = sendJsonEach(@, members,
                                             RoomState(cleanRoom, Len(members))),
                        !.ret = Undefined]

joinRoom(st, socket, room) ==
  LET trimmed == OptionalTrim(room) IN
  IF trimmed.threw THEN [st EXCEPT !.threw = TRUE]
  ELSE IF Falsy(trimmed.val)
  THEN [st EXCEPT !.out = sendJson(@, socket, ErrorPayload("invalid-room", "Room is required.")),
                  !.ret = Undefined]
  ELSE
    LET cleanRoom == trimmed.val.v
        st1 == leaveRoom(st, socket)
        rooms1 == getRoomSet(st1.rooms, cleanRoom)
        members == rooms1[cleanRoom]
    IN IF RoomIsFull(members)
       THEN [st1 EXCEPT !.rooms = rooms1,
                        !.out = sendJson(@, socket, ErrorPayload("room-full", "Room is full.")),
                        !.ret = Undefined]
       ELSE LET joined == SetAdd(members, socket) IN
            [st1 EXCEPT !.rooms = MapSet(rooms1, cleanRoom, joined),
                        !.socketToRoom = MapSet(@, socket, cleanRoom),
                        !.out = sendJsonEach(@, joined,
                                             RoomState(cleanRoom, Len(joined))),
                        !.ret = Undefined]

\* for (const client of members) { skip the sender and the not-open; client.send }
RECURSIVE sendEach(_, _, _, _, _)
sendEach(out, members, sender, data, isBinary) ==
  IF members = <<>> THEN out
  ELSE LET client == Head(members)
           out1 == IF client = sender \/ readyState[client] # "OPEN" THEN out
                   ELSE Append(out, [to |-> client, data |-> data, binary |-> isBinary])
       IN sendEach(out1, Tail(members), sender, data, isBinary)

\* The relay before rooms existed: every wss.clients entry but the sender.
broadcast(st, sender, data, isBinary) ==
  LET clients == {c \in Sockets : readyState[c] \in {"OPEN", "CLOSING"}}
      order == CHOOSE q \in [1..Cardinality(clients) -> clients] : Range(q) = clients
  IN [st EXCEPT !.out = sendEach(@, order, sender, data, isBinary)]

broadcastToRoom(st, sender, data, isBinary) ==
  IF ~MapHas(st.socketToRoom, sender) \/ st.socketToRoom[sender] = <<>> THEN st
  ELSE LET room == st.socketToRoom[sender] IN
       IF ~MapHas(st.rooms, room) THEN st
       ELSE [st EXCEPT !.out = sendEach(@, st.rooms[room], sender, data, isBinary)]

\* socket.on('message', (data, isBinary) => ...)
onMessage(st, socket, data, isBinary) ==
  IF ~isBinary
  THEN LET parsed == JSON_parse(data) IN
       IF parsed.threw THEN broadcastToRoom(st, socket, data, isBinary)
       ELSE LET payload == parsed.val IN
            IF payload.type = "join"
            THEN LET res == joinRoom(st, socket, payload.room) IN
                 IF res.threw
                 THEN broadcastToRoom([res EXCEPT !.threw = FALSE], socket, data, isBinary)
                 ELSE res
            ELSE IF payload.type = "leave" THEN leaveRoom(st, socket)
            ELSE IF payload.type = "audio-config"
            THEN broadcastToRoom(st, socket, data, FALSE)
            ELSE broadcastToRoom(st, socket, data, isBinary)
  ELSE broadcastToRoom(st, socket, data, isBinary)

\* A close handler that only logs.
onClose_LogOnly(st, socket) == st

\* socket.on('close', () => ...)
onClose(st, socket) == leaveRoom(st, socket)

-----------------------------------------------------------------------------
(* History: the event just handled and the join / leave / join episode *)

Event(ev, socket, data, isBinary, ret) ==
  [ev |-> ev, socket |-> socket, data |-> data, isBinary |-> isBinary,
   rooms |-> rooms, socketToRoom |-> socketToRoom, ret |-> ret]

IsJoin(e) ==
  /\ e.ev = "message" /\ ~e.isBinary /\ e.data.json /\ e.data.obj.type = "join"
IsLeave(e) ==
  /\ e.ev = "message" /\ ~e.isBinary /\ e.data.json /\ e.data.obj.type = "leave"
\* The room id a join names, when it names one.
NamesRoom(e) ==
  /\ IsJoin(e)
  /\ ~OptionalTrim(e.data.obj.room).threw
  /\ ~Falsy(OptionalTrim(e.data.obj.room).val)
CleanRoomOf(e) == OptionalTrim(e.data.obj.room).val.v

NoTrail == [n |-> 0, socket |-> 0, room |-> <<>>, rooms |-> EmptyMap,
            socketToRoom |-> EmptyMap]

\* The consecutive events of one connection that the registry's algebra is about.
\* n = 1: socket has just sent join(room); the registry after that join is kept.
\* n = 2: the event after a join (n = 1, 3 or 5) was its leave.
\* n = 3: the event after that leave was join(room) again.
\* n = 4: the event after that leave was a second leave, or its close.
\* n = 5: the event after a join (n = 1, 3 or 5) was join(room) again.
\* Any other event ends the episode.
Track(t, e, st) ==
  IF NamesRoom(e)
  THEN IF t.n = 2 /\ t.socket = e.socket /\ t.room = CleanRoomOf(e)
       THEN [t EXCEPT !.n = 3]
       ELSE IF t.n \in {1, 3, 5} /\ t.socket = e.socket /\ t.room = CleanRoomOf(e)
       THEN [t EXCEPT !.n = 5]
       ELSE [n |-> 1, socket |-> e.socket, room |-> CleanRoomOf(e),
             rooms |-> st.rooms, socketToRoom |-> st.socketToRoom]
  ELSE IF IsLeave(e) /\ t.n \in {1, 3, 5} /\ t.socket = e.socket
  THEN [t EXCEPT !.n = 2]
  ELSE IF (IsLeave(e) \/ e.ev = "close") /\ t.n = 2 /\ t.socket = e.socket
  THEN [t EXCEPT !.n = 4]
  ELSE NoTrail

-----------------------------------------------------------------------------
(* The capture pipeline of the client: startRecording, stopRecording and    *)
(* the MediaRecorder callbacks.  Every callback runs to completion; the     *)
(* `await` of getUserMedia splits startRecording into two steps.            *)

\* Start intents (each one getUserMedia call) the model follows.
MaxStarts == 2

\* dataavailable events per recorder the model follows.
MaxChunks == 2

NoRef == 0

\* A call of startRecording that reached getUserMedia.  `live` says that the
\* tracks of its MediaStream are live (the device is held).  The last four
\* fields record what was true when the intent was made and whether
\* stopRecording ran while getUserMedia was pending.
NewSession(busy, open, format) ==
  [phase |-> "acquiring", live |-> FALSE, chunks |-> 0, flushed |-> FALSE,
   stopAsked |-> FALSE, startedBusy |-> busy, startedOpen |-> open,
   startedWithFormat |-> format]

ConfigFrame(k) == [kind |-> "audio-config", session |-> k]
ChunkFrame(k) == [kind |-> "chunk", session |-> k]

\* recorder.state of the recorder a ref holds: 'recording' between start()
\* and stop(), 'inactive' otherwise.
RecorderActive(ss, k) == k # NoRef /\ ss[k].phase = "recording"

\* stream.getTracks().forEach((track) => track.stop())
StopTracks(ss, k) == IF k = NoRef THEN ss ELSE [ss EXCEPT ![k].live = FALSE]

SessionBusy(ss, k) == ss[k].phase \in {"acquiring", "recording", "stopping"}

AnySessionBusy(ss) == \E k \in DOMAIN ss : SessionBusy(ss, k)

\* const canRecord = wsStatus === 'connected' && supportedTypes.length > 0
canRecord == wsReadyState = "OPEN" /\ hasFormat

CaptureInit(format) ==
  /\ wsReadyState = "CONNECTING"
  /\ hasFormat = format
  /\ isRecording = FALSE
  /\ seenRecording = FALSE
  /\ sessions = <<>>
  /\ recorderRef = NoRef
  /\ streamRef = NoRef
  /\ wire = <<>>

\* startRecording up to its await.
startRecording ==
  IF seenRecording THEN UNCHANGED vars
  ELSE IF wsReadyState # "OPEN" THEN UNCHANGED vars
  ELSE /\ Len(sessions) < MaxStarts
       /\ sessions' = Append(sessions, NewSession(AnySessionBusy(sessions),
                                             wsReadyState = "OPEN", hasFormat))
       /\ UNCHANGED <<beyondCapture, wsReadyState, hasFormat, isRecording, seenRecording,
                      recorderRef, streamRef, wire>>

\* stopRecording; a session whose getUserMedia is pending is marked as asked
\* to stop (no code reads the mark).
MarkStopAsked(ss) ==
  [k \in DOMAIN ss |->
     IF ss[k].phase = "acquiring" THEN [ss[k] EXCEPT !.stopAsked = TRUE] ELSE ss[k]]

stopRecording ==
  IF RecorderActive(sessions, recorderRef)
  THEN /\ sessions' = [MarkStopAsked(sessions) EXCEPT ![recorderRef].phase = "stopping"]
       /\ UNCHANGED <<beyondCapture, wsReadyState, hasFormat, isRecording, seenRecording,
                      recorderRef, streamRef, wire>>
  ELSE /\ sessions' = StopTracks(MarkStopAsked(sessions), streamRef)
       /\ streamRef' = NoRef
       /\ isRecording' = FALSE
       /\ UNCHANGED <<beyondCapture, wsReadyState, hasFormat, seenRecording, recorderRef, wire>>

\* The push-to-talk button: disabled unless canRecord.
PointerDown == canRecord /\ startRecording
PointerUp == canRecord /\ stopRecording
Click == canRecord /\ IF seenRecording THEN stopRecording ELSE startRecording

\* The window key handlers of the space bar.
KeyDown == startRecording
KeyUp == stopRecording

\* A render: the handlers are created again and capture the current state.
Render ==
  /\ seenRecording # isRecording
  /\ seenRecording' = isRecording
  /\ UNCHANGED <<beyondCapture, wsReadyState, hasFormat, isRecording, sessions,
                 recorderRef, streamRef, wire>>

\* getUserMedia resolves: the rest of the try block of startRecording.
\* `throws` says that new MediaRecorder(...) throws.
Granted(k, throws) ==
  /\ k \in DOMAIN sessions
  /\ sessions[k].phase = "acquiring"
  /\ UNCHANGED <<beyondCapture, wsReadyState, hasFormat, seenRecording>>
  /\ IF throws
     THEN /\ sessions' = [sessions EXCEPT ![k].phase = "failed"]
          /\ streamRef' = k
          /\ UNCHANGED <<isRecording, recorderRef, wire>>
     ELSE IF wsReadyState = "CONNECTING"
     THEN \* send throws InvalidStateError: the catch block stops the stream
          /\ sessions' = [sessions EXCEPT ![k].phase = "failed"]
          /\ streamRef' = k
          /\ recorderRef' = k
          /\ UNCHANGED <<isRecording, wire>>
     ELSE /\ sessions' = [sessions EXCEPT ![k].phase = "recording", ![k].live = TRUE]
          /\ streamRef' = k
          /\ recorderRef' = k
          /\ wire' = IF wsReadyState = "OPEN" THEN Append(wire, ConfigFrame(k)) ELSE wire
          /\ isRecording' = TRUE

\* getUserMedia rejects: the catch block; no stream was assigned.
Denied(k) ==
  /\ k \in DOMAIN sessions
  /\ sessions[k].phase = "acquiring"
  /\ sessions' = [sessions EXCEPT ![k].phase = "denied"]
  /\ UNCHANGED <<beyondCapture, wsReadyState, hasFormat, isRecording, seenRecording,
                 recorderRef, streamRef, wire>>

\* recorder.ondataavailable with data: a timeslice while recording, or the
\* one flush that follows recorder.stop().
DataAvailable(k) ==
  /\ k \in DOMAIN sessions
  /\ \/ sessions[k].phase = "recording"
     \/ sessions[k].phase = "stopping" /\ ~sessions[k].flushed
  /\ sessions[k].chunks < MaxChunks
  /\ sessions' = [sessions EXCEPT ![k].chunks = @ + 1,
                                  ![k].flushed = (sessions[k].phase = "stopping")]
  /\ wire' = IF wsReadyState = "OPEN" THEN Append(wire, ChunkFrame(k)) ELSE wire
  /\ UNCHANGED <<beyondCapture, wsReadyState, hasFormat, isRecording, seenRecording,
                 recorderRef, streamRef>>

\* recorder.onstop
OnStop(k) ==
  /\ k \in DOMAIN sessions
  /\ sessions[k].phase = "stopping"
  /\ sessions' = [sessions EXCEPT ![k].phase = "ended", ![k].live = FALSE]
  /\ streamRef' = NoRef
  /\ isRecording' = FALSE
  /\ UNCHANGED <<beyondCapture, wsReadyState, hasFormat, seenRecording, recorderRef, wire>>

\* recorder.onerror; the recorder is stopped by the browser and its stop
\* event follows.
OnError(k) ==
  /\ k \in DOMAIN sessions
  /\ sessions[k].phase = "recording"
  /\ sessions' = [sessions EXCEPT ![k].phase = "stopping", ![k].live = FALSE,
                                  ![k].flushed = TRUE]
  /\ streamRef' = NoRef
  /\ isRecording' = FALSE
  /\ UNCHANGED <<beyondCapture, wsReadyState, hasFormat, seenRecording, recorderRef, wire>>

\* socket.onopen, socket.onclose and the Reconnect button (connectWs).
WsOpen ==
  /\ wsReadyState = "CONNECTING"
  /\ wsReadyState' = "OPEN"
  /\ UNCHANGED <<beyondCapture, hasFormat, isRecording, seenRecording, sessions,
                 recorderRef, streamRef, wire>>

WsClose ==
  /\ wsReadyState \in {"CONNECTING", "OPEN"}
  /\ wsReadyState' = "CLOSED"
  /\ UNCHANGED <<beyondCapture, hasFormat, isRecording, seenRecording, sessions,
                 recorderRef, streamRef, wire>>

connectWs ==
  /\ wsReadyState' = IF wsReadyState \in {"CONNECTING", "OPEN"}
                     THEN wsReadyState ELSE "CONNECTING"
  /\ UNCHANGED <<beyondCapture, hasFormat, isRecording, seenRecording, sessions,
                 recorderRef, streamRef, wire>>

CaptureNext ==
  \/ PointerDown
  \/ PointerUp
  \/ Click
  \/ KeyDown
  \/ KeyUp
  \/ Render
  \/ \E k \in 1..MaxStarts : \E throws \in BOOLEAN : Granted(k, throws)
  \/ \E k \in 1..MaxStarts : Denied(k)
  \/ \E k \in 1..MaxStarts : DataAvailable(k)
  \/ \E k \in 1..MaxStarts : OnStop(k)
  \/ \E k \in 1..MaxStarts : OnError(k)
  \/ WsOpen
  \/ WsClose
  \/ connectWs

-----------------------------------------------------------------------------
(* The playback side of the client: socket.onmessage and the promise chain  *)
(* of playQueueRef.                                                         *)

\* Text frames the sender sends besides its chunks.
MaxControls == 2

NoConfig == "none"

\* a || b for strings: the empty string is falsy.
OrElse(a, b) == IF a = "" THEN b ELSE a

\* const [selectedType, setSelectedType] = useState('')
selectedType == ""

\* The mime type onmessage gives the Blob of a binary frame.
BlobType(refMime) == OrElse(OrElse(refMime, selectedType), "audio/webm")

\* A promise of the chain.  state is "waiting" until the callback given to
\* then() runs and "playing" while the promise the callback returned is
\* pending.  It is fulfilled by resolve(): "ended" (onended), "errored"
\* (onerror) or "refused" (the promise of play() rejected).  It is rejected
\* when the executor throws ("threw") or when the promise before it is
\* rejected ("skipped").  `config` is the value of `heard` when the chunk
\* arrived.
Slot(chunk, mime, config) ==
  [chunk |-> chunk, mime |-> mime, config |-> config, state |-> "waiting"]

Fulfilled(slot) == slot.state \in {"ended", "errored", "refused"}
Rejected(slot) == slot.state \in {"threw", "skipped"}

\* playQueueRef.current = playQueueRef.current.then(...)
Enqueue(q, slot) == Append(q, slot)

CanStart_NoChain(q, i) == q[i].state = "waiting"

\* The callback of slot i runs once the promise before it is fulfilled; the
\* first one is chained on Promise.resolve().
CanStart(q, i) ==
  /\ q[i].state = "waiting"
  /\ i = 1 \/ Fulfilled(q[i - 1])

\* The callback of slot i: new Promise(executor).  If the executor throws,
\* the promise is rejected, and so is every promise chained behind it (then()
\* was given no rejection handler).
RunCallback(q, i, throws) ==
  IF throws
  THEN [j \in DOMAIN q |->
          IF j = i THEN [q[j] EXCEPT !.state = "threw"]
          ELSE IF j > i /\ q[j].state = "waiting" THEN [q[j] EXCEPT !.state = "skipped"]
          ELSE q[j]]
  ELSE [q EXCEPT ![i].state = "playing"]

\* The microtasks at the end of a handler: the callback of a slot that can
\* start runs before any other event is handled.  An enqueue behind a rejected
\* promise is rejected at once.
Settle(q, pl, throws) ==
  LET q1 == [j \in DOMAIN q |->
               IF j > 1 /\ q[j].state = "waiting" /\ Rejected(q[j - 1])
               THEN [q[j] EXCEPT !.state = "skipped"] ELSE q[j]]
      ready == {i \in DOMAIN q1 : CanStart(q1, i)}
  IN IF ready = {} THEN [q |-> q1, played |-> pl]
     ELSE LET i == CHOOSE r \in ready : \A o \in ready : r <= o
          IN [q |-> RunCallback(q1, i, throws),
              played |-> IF throws THEN pl ELSE Append(pl, q1[i].chunk)]

PlaybackInit ==
  /\ uplink = <<>>
  /\ downlink = <<>>
  /\ chunksSent = 0
  /\ controlsSent = 0
  /\ incomingMeta = ""
  /\ incomingMetaRef = ""
  /\ heard = NoConfig
  /\ playQueue = <<>>
  /\ played = <<>>

-----------------------------------------------------------------------------
(* The state machine *)

RegistryInit ==
  /\ readyState = [s \in Sockets |-> "NONE"]
  /\ rooms = EmptyMap
  /\ socketToRoom = EmptyMap
  /\ sent = <<>>
  /\ last = Event("init", 0, NoData, FALSE, Undefined)
  /\ trail = NoTrail

Init ==
  /\ RegistryInit
  /\ CaptureInit(TRUE)
  /\ PlaybackInit

\* The effects of one handler on the registry.
Handle(e, st) ==
  /\ rooms' = st.rooms
  /\ socketToRoom' = st.socketToRoom
  /\ sent' = st.out
  /\ last' = [e EXCEPT !.ret = st.ret]
  /\ trail' = Track(trail, e, st)

Commit(e, st) == Handle(e, st) /\ UNCHANGED <<captureVars, playbackVars>>

\* wss.on('connection', (socket, req) => ...): the handlers are installed.
Connection(s) ==
  /\ readyState[s] = "NONE"
  /\ readyState' = [readyState EXCEPT ![s] = "OPEN"]
  /\ Commit(Event("connection", s, NoData, FALSE, Undefined), Begin)

\* A 'message' event of an open connection.
Message(s, data, isBinary) ==
  /\ readyState[s] = "OPEN"
  /\ UNCHANGED readyState
  /\ Commit(Event("message", s, data, isBinary, Undefined),
            onMessage(Begin, s, data, isBinary))

\* The transport starts closing (close frame or lost socket): readyState is
\* no longer OPEN, the 'close' event has not been emitted yet.
Closing(s) ==
  /\ readyState[s] = "OPEN"
  /\ readyState' = [readyState EXCEPT ![s] = "CLOSING"]
  /\ Commit(Event("closing", s, NoData, FALSE, Undefined), Begin)

\* The 'close' event: readyState is CLOSED when the handler runs.
Close(s) ==
  /\ readyState[s] \in {"OPEN", "CLOSING"}
  /\ readyState' = [readyState EXCEPT ![s] = "CLOSED"]
  /\ Commit(Event("close", s, NoData, FALSE, Undefined), onClose(Begin, s))

\* socket.on('error', ...) only logs.
SocketError(s) ==
  /\ readyState[s] \in {"OPEN", "CLOSING"}
  /\ UNCHANGED readyState
  /\ Commit(Event("error", s, NoData, FALSE, Undefined), Begin)

Next ==
  \/ \E s \in Sockets : Connection(s)
  \/ \E s \in Sockets : \E data \in TextData : Message(s, data, FALSE)
  \/ \E s \in Sockets : \E data \in BinaryData : Message(s, data, TRUE)
  \/ \E s \in Sockets : Closing(s)
  \/ \E s \in Sockets : Close(s)
  \/ \E s \in Sockets : SocketError(s)

Spec == Init /\ [][Next]_vars

\* The capture pipeline of one client on its own: the relay stands still.
CaptureStart ==
  /\ RegistryInit
  /\ \E format \in BOOLEAN : CaptureInit(format)
  /\ PlaybackInit

CaptureSpec == CaptureStart /\ [][CaptureNext]_vars

-----------------------------------------------------------------------------
(* One sender, the relay and the playback side of the receiver it is paired *)
(* with.  A socket delivers its frames in the order they were sent.         *)

Sender == 1
Receiver == 2

\* The room the two share.
SharedRoom == Str(<<"a">>)

ConfigMimes == {"audio/ogg"}

AudioConfig(mime) ==
  JSON_stringify([type |-> "audio-config", room |-> Undefined, mimeType |-> mime])

\* The n-th chunk of the sender; its first byte tells it from the others.
Chunk(n) == Raw(<<n>>)

SenderControls ==
  {AudioConfig(mime) : mime \in ConfigMimes} \cup {LeaveData, JoinData(SharedRoom)}

Frame(data, binary) == [data |-> data, binary |-> binary]

\* The frames a handler sent to one socket, in order.
RECURSIVE FramesTo(_, _)
FramesTo(out, socket) ==
  IF out = <<>> THEN <<>>
  ELSE IF Head(out).to = socket
       THEN <<Frame(Head(out).data, Head(out).binary)>> \o FramesTo(Tail(out), socket)
       ELSE FramesTo(Tail(out), socket)

Deliver_Unordered(link, frames) == frames \o link

\* socket.send: a socket carries its frames in the order they were sent.
Deliver(link, frames) == link \o frames

\* The registry after Sender, then Receiver, joined SharedRoom.
Paired ==
  joinRoom(joinRoom([rooms |-> EmptyMap, socketToRoom |-> EmptyMap, out |-> <<>>,
                     ret |-> Undefined, threw |-> FALSE], Sender, SharedRoom),
           Receiver, SharedRoom)

PlaybackStart ==
  /\ readyState = [s \in Sockets |-> IF s \in {Sender, Receiver} THEN "OPEN" ELSE "NONE"]
  /\ rooms = Paired.rooms
  /\ socketToRoom = Paired.socketToRoom
  /\ sent = <<>>
  /\ last = Event("init", 0, NoData, FALSE, Undefined)
  /\ trail = NoTrail
  /\ CaptureInit(TRUE)
  /\ PlaybackInit

\* recorder.ondataavailable of the sender: wsRef.current.send(event.data)
SendChunk ==
  /\ chunksSent < MaxChunks
  /\ chunksSent' = chunksSent + 1
  /\ uplink' = Deliver(uplink, <<Frame(Chunk(chunksSent + 1), TRUE)>>)
  /\ UNCHANGED <<serverVars, captureVars, downlink, controlsSent, incomingMeta,
                 incomingMetaRef, heard, playQueue, played>>

\* A text frame of the sender: its audio-config, a leave or a join.
SendControl(data) ==
  /\ controlsSent < MaxControls
  /\ controlsSent' = controlsSent + 1
  /\ uplink' = Deliver(uplink, <<Frame(data, FALSE)>>)
  /\ UNCHANGED <<serverVars, captureVars, downlink, chunksSent, incomingMeta,
                 incomingMetaRef, heard, playQueue, played>>

\* The relay's 'message' handler for the next frame of the sender.
Relay ==
  /\ uplink # <<>>
  /\ readyState[Sender] = "OPEN"
  /\ LET f == Head(uplink)
         st == onMessage(Begin, Sender, f.data, f.binary)
     IN /\ Handle(Event("message", Sender, f.data, f.binary, Undefined), st)
        /\ downlink' = Deliver(downlink, FramesTo(st.out, Receiver))
  /\ uplink' = Tail(uplink)
  /\ UNCHANGED <<readyState, captureVars, chunksSent, controlsSent, incomingMeta,
                 incomingMetaRef, heard, playQueue, played>>

\* The receiver's transport starts closing.
ReceiverClosing == Closing(Receiver)

\* socket.onmessage of the receiver; `throws` says whether the executor of a
\* callback this event makes run throws.
Receive(throws) ==
  /\ downlink # <<>>
  /\ downlink' = Tail(downlink)
  /\ UNCHANGED <<serverVars, captureVars, uplink, chunksSent, controlsSent,
                 incomingMetaRef>>
  /\ LET f == Head(downlink)
         parsed == JSON_parse(f.data)
     IN IF ~f.binary
        THEN IF ~parsed.threw /\ parsed.val.type = "audio-config"
             THEN /\ incomingMeta' = OrElse(parsed.val.mimeType, "")
                  /\ heard' = parsed.val.mimeType
                  /\ UNCHANGED <<playQueue, played>>
             ELSE UNCHANGED <<incomingMeta, heard, playQueue, played>>
        ELSE LET slot == Slot(f.data, BlobType(incomingMetaRef), heard)
                 r == Settle(Enqueue(playQueue, slot), played, throws)
             IN /\ playQueue' = r.q
                /\ played' = r.played
                /\ UNCHANGED <<incomingMeta, heard>>

\* useEffect(() => { incomingMetaRef.current = incomingMeta }, [incomingMeta])
\* after the render that setIncomingMeta asked for.
SyncIncomingMetaRef ==
  /\ incomingMetaRef # incomingMeta
  /\ incomingMetaRef' = incomingMeta
  /\ UNCHANGED <<serverVars, captureVars, uplink, downlink, chunksSent, controlsSent,
                 incomingMeta, heard, playQueue, played>>

\* resolve() of slot i, called for the reason `how`.
Resolve(i, how, throws) ==
  /\ i \in DOMAIN playQueue
  /\ playQueue[i].state = "playing"
  /\ LET r == Settle([playQueue EXCEPT ![i].state = how], played, throws)
     IN playQueue' = r.q /\ played' = r.played
  /\ UNCHANGED <<serverVars, captureVars, uplink, downlink, chunksSent, controlsSent,
                 incomingMeta, incomingMetaRef, heard>>

\* audio.onended, audio.onerror and audio.play().catch(...)
Ended(i, throws) == Resolve(i, "ended", throws)
AudioError(i, throws) == Resolve(i, "errored", throws)
PlayRejected(i, throws) == Resolve(i, "refused", throws)

PlaybackNext ==
  \/ SendChunk
  \/ \E data \in SenderControls : SendControl(data)
  \/ Relay
  \/ ReceiverClosing
  \/ \E throws \in BOOLEAN : Receive(throws)
  \/ SyncIncomingMetaRef
  \/ \E i \in 1..MaxChunks : \E throws \in BOOLEAN : Ended(i, throws)
  \/ \E i \in 1..MaxChunks : \E throws \in BOOLEAN : AudioError(i, throws)
  \/ \E i \in 1..MaxChunks : \E throws \in BOOLEAN : PlayRejected(i, throws)

PlaybackSpec == PlaybackStart /\ [][PlaybackNext]_vars

-----------------------------------------------------------------------------
(* Properties of the room registry and the relay router *)

MembersOf(rm, r) == IF MapHas(rm, r) THEN Range(rm[r]) ELSE {}
RoomsOf(rm, c) == {r \in DOMAIN rm : c \in Range(rm[r])}
Count(seq, x) == Cardinality({i \in DOMAIN seq : seq[i] = x})
\* The text frame sendJson(to, payload) sends.
Note(to, payload) == [to |-> to, data |-> JSON_stringify(payload), binary |-> FALSE]
RoomFullNote(to) == Note(to, ErrorPayload("room-full", "Room is full."))
IsCloseOrLeave(e) == e.ev = "close" \/ IsLeave(e)

\* C1: after any sequence of connection, join, leave, relay, error and close
\* events of any of the connections, every room of the registry has at most
\* ROOM_LIMIT = 2 members.
C1_AtMostTwoMembers ==
  \A r \in DOMAIN rooms :
    Len(rooms[r]) <= ROOM_LIMIT /\ Cardinality(Range(rooms[r])) <= ROOM_LIMIT

\* A third connection has just asked for a room that holds two others.
C1_ThirdJoinerSeen ==
  /\ NamesRoom(last)
  /\ MapHas(rooms, CleanRoomOf(last))
  /\ Len(rooms[CleanRoomOf(last)]) = ROOM_LIMIT
  /\ last.socket \notin Range(rooms[CleanRoomOf(last)])

\* The join just handled named a room that held ROOM_LIMIT members when it arrived.
JoinFoundRoomFull ==
  /\ NamesRoom(last)
  /\ MapHas(last.rooms, CleanRoomOf(last))
  /\ Len(last.rooms[CleanRoomOf(last)]) >= ROOM_LIMIT

\* The sender got one room-full error, the room is as it was, and the sender
\* is in no room.
SenderTurnedAway ==
  /\ Count(sent, RoomFullNote(last.socket)) = 1
  /\ MapHas(rooms, CleanRoomOf(last))
  /\ rooms[CleanRoomOf(last)] = last.rooms[CleanRoomOf(last)]
  /\ ~MapHas(socketToRoom, last.socket)
  /\ RoomsOf(rooms, last.socket) = {}

\* C2 as stated: a join for a room that already has 2 members gets a room-full
\* error, leaves that room's members unchanged and leaves the sender in no room.
C2_FullRoomTurnsSenderAway == JoinFoundRoomFull => SenderTurnedAway

\* C2, amended: a join for a room that already has 2 members, neither of which
\* is the sender, gets a room-full error, leaves that room's members unchanged
\* and leaves the sender in no room (its membership of another room is dropped).
C2_FullRoomTurnsOutsiderAway ==
  (JoinFoundRoomFull /\ last.socket \notin Range(last.rooms[CleanRoomOf(last)]))
    => SenderTurnedAway

\* A member of another room was turned away from a full room.
C2_OutsiderTurnedAway ==
  /\ JoinFoundRoomFull
  /\ last.socket \notin Range(last.rooms[CleanRoomOf(last)])
  /\ MapHas(last.socketToRoom, last.socket)
  /\ SenderTurnedAway

\* C3: a binary frame from a sender that shares its room with one other open
\* member is sent once, unchanged and flagged binary, to that member and to
\* nobody else; from a sender in no room it is sent to nobody; and no frame
\* ever goes to the sender or to a connection outside the sender's room.
C3_BinaryRelayedToPeerOnly ==
  (last.ev = "message" /\ last.isBinary) =>
    LET s == last.socket IN
    /\ ~MapHas(socketToRoom, s) => sent = <<>>
    /\ \A p \in Sockets \ {s} :
         ( /\ MapHas(socketToRoom, s)
           /\ MembersOf(rooms, socketToRoom[s]) = {s, p}
           /\ readyState[p] = "OPEN" )
         => sent = <<[to |-> p, data |-> last.data, binary |-> TRUE]>>
    /\ \A i \in DOMAIN sent :
         /\ sent[i].to # s
         /\ MapHas(socketToRoom, s)
         /\ sent[i].to \in MembersOf(rooms, socketToRoom[s])
    /\ rooms = last.rooms /\ socketToRoom = last.socketToRoom

\* A binary frame reached the peer while an open connection was in no room.
C3_RelayedPastBystander ==
  /\ last.ev = "message" /\ last.isBinary
  /\ Len(sent) = 1
  /\ \E c \in Sockets \ {last.socket} :
       readyState[c] = "OPEN" /\ ~MapHas(socketToRoom, c)

\* The join just handled was admitted: its sender is now in the room it named.
JoinAdmitted ==
  /\ NamesRoom(last)
  /\ MapHas(socketToRoom, last.socket)
  /\ socketToRoom[last.socket] = CleanRoomOf(last)

\* C4: an admitted join sends exactly one room-state frame carrying the room
\* id, limit 2 and the member count after the join to every open member of
\* the room, the joiner included, and to nobody else.
C4_JoinAnnouncedToAll ==
  JoinAdmitted =>
    LET s == last.socket
        r == CleanRoomOf(last)
    IN /\ MapHas(rooms, r)
       /\ s \in Range(rooms[r])
       /\ Len(rooms[r]) = Cardinality(MembersOf(last.rooms, r) \cup {s})
       /\ \A m \in Sockets :
            Count(sent, Note(m, RoomState(r, Len(rooms[r])))) =
              IF m \in Range(rooms[r]) /\ readyState[m] = "OPEN" THEN 1 ELSE 0
       /\ Count(sent, Note(s, RoomState(r, Len(rooms[r])))) = 1

\* A join completed a pair of open members, and both were told count 2.
C4_PairCompleted ==
  /\ JoinAdmitted
  /\ Len(rooms[CleanRoomOf(last)]) = 2
  /\ \A m \in Range(rooms[CleanRoomOf(last)]) : readyState[m] = "OPEN"
  /\ Len(sent) >= 2

\* Handling the close of a member removes it from its room and sends one
\* room-state frame with the reduced count to every member in `told` that
\* remains; and no member set contains a closed connection.
CloseLeavesRoom(told) ==
  /\ \A r \in DOMAIN rooms : \A c \in Range(rooms[r]) : readyState[c] # "CLOSED"
  /\ (last.ev = "close" /\ MapHas(last.socketToRoom, last.socket)) =>
       LET s == last.socket
           r == last.socketToRoom[s]
           rest == MembersOf(last.rooms, r) \ {s}
       IN /\ RoomsOf(rooms, s) = {}
          /\ ~MapHas(socketToRoom, s)
          /\ MembersOf(rooms, r) = rest
          /\ \A p \in rest \cap told :
               Count(sent, Note(p, RoomState(r, Cardinality(rest)))) = 1

OpenSockets == {c \in Sockets : readyState[c] = "OPEN"}

\* C5 as stated: handling the close of a member removes it from its room, the
\* remaining member, if any, is sent a room-state frame with the reduced
\* count, and no member set ever contains a closed connection.
C5_CloseNotifiesRemainingMember == CloseLeavesRoom(Sockets)

\* C5, amended: handling the close of a member removes it from its room, the
\* remaining member, if any and if its transport is open, is sent a room-state
\* frame with the reduced count, and no member set ever contains a closed
\* connection.
C5_CloseNotifiesOpenMember == CloseLeavesRoom(OpenSockets)

\* A member closed and its open peer was told count 1.
C5_PeerToldOfClose ==
  /\ last.ev = "close"
  /\ MapHas(last.socketToRoom, last.socket)
  /\ \E p \in Sockets \ {last.socket} :
       /\ p \in MembersOf(last.rooms, last.socketToRoom[last.socket])
       /\ readyState[p] = "OPEN"
       /\ sent = <<Note(p, RoomState(last.socketToRoom[last.socket], 1))>>

\* Every connection is in at most one member set; an admitted join by a member
\* of a room takes it out of that room (the room is deleted if that empties
\* it, else every member in `told` left in it is sent the reduced count)
\* before any frame announces the join.
JoinLeavesOldRoomFirst(told) ==
  /\ \A c \in Sockets : Cardinality(RoomsOf(rooms, c)) <= 1
  /\ (JoinAdmitted /\ MapHas(last.socketToRoom, last.socket)) =>
       LET s == last.socket
           r1 == last.socketToRoom[s]
           r2 == CleanRoomOf(last)
           rest == MembersOf(last.rooms, r1) \ {s}
       IN /\ r1 # r2 => MembersOf(rooms, r1) = rest
          /\ (r1 # r2 /\ rest = {}) => ~MapHas(rooms, r1)
          /\ \A p \in rest \cap told :
               \E i \in DOMAIN sent :
                 /\ sent[i] = Note(p, RoomState(r1, Cardinality(rest)))
                 /\ \A j \in DOMAIN sent :
                      (\E m \in Sockets :
                         sent[j] = Note(m, RoomState(r2, Len(rooms[r2]))))
                      => i < j

\* C6 as stated: every connection is in at most one room, and an admitted
\* join by a member of r1 removes it from r1, notifying r1's remaining member
\* or deleting r1 if it is left empty, before adding it to the room it names.
C6_MoveNotifiesRemainingMember == JoinLeavesOldRoomFirst(Sockets)

\* C6, amended: every connection is in at most one room, and an admitted join
\* by a member of r1 removes it from r1, notifying r1's remaining member if
\* that member's transport is open, or deleting r1 if it is left empty, before
\* adding it to the room it names.
C6_MoveNotifiesOpenMember == JoinLeavesOldRoomFirst(OpenSockets)

\* A member of one room moved to another and left an open peer behind.
C6_MovedBetweenRooms ==
  /\ JoinAdmitted
  /\ MapHas(last.socketToRoom, last.socket)
  /\ last.socketToRoom[last.socket] # CleanRoomOf(last)
  /\ \E p \in MembersOf(rooms, last.socketToRoom[last.socket]) :
       readyState[p] = "OPEN"
  /\ Len(sent) >= 2

\* C7: between event handlers the registry holds no room with zero members.
C7_NoEmptyRoom == \A r \in DOMAIN rooms : Len(rooms[r]) > 0

\* The last member of a room left or closed, and the room is gone.
C7_LastMemberGone ==
  /\ IsCloseOrLeave(last)
  /\ MapHas(last.socketToRoom, last.socket)
  /\ MembersOf(last.rooms, last.socketToRoom[last.socket]) = {last.socket}
  /\ ~MapHas(rooms, last.socketToRoom[last.socket])

\* C8: a leave (by message or by close) of a connection that is in no room
\* returns null, changes neither map and sends nothing.
C8_LeaveTwiceIsNoOp ==
  (IsCloseOrLeave(last) /\ RoomsOf(last.rooms, last.socket) = {}) =>
    /\ last.ret = Null
    /\ rooms = last.rooms
    /\ socketToRoom = last.socketToRoom
    /\ sent = <<>>

\* A connection joined, sent leave, and then closed.
C8_LeftThenClosed ==
  /\ trail.n = 4
  /\ last.ev = "close"
  /\ MapHas(trail.rooms, trail.room)
  /\ Len(trail.rooms[trail.room]) = 2
  /\ RoomsOf(last.rooms, last.socket) = {}

\* The same rooms with the same members, and the same room for every connection.
SameMembership(rm1, s2r1, rm2, s2r2) ==
  /\ DOMAIN rm1 = DOMAIN rm2
  /\ \A r \in DOMAIN rm1 : Range(rm1[r]) = Range(rm2[r]) /\ Len(rm1[r]) = Len(rm2[r])
  /\ s2r1 = s2r2

C10_ControlNeverForwarded ==
  (IsJoin(last) \/ IsLeave(last)) =>
    \A i \in DOMAIN sent : sent[i].data # last.data

\* The join just handled named no usable room: its room field is empty or
\* blank after trimming, missing, or not a string.
JoinNamesNoRoom == IsJoin(last) /\ ~NamesRoom(last)

InvalidRoomNote(to) == Note(to, ErrorPayload("invalid-room", "Room is required."))

\* C11: a join whose room id is empty, blank, missing or otherwise unusable is
\* answered with one invalid-room error to the sender and nothing to anyone
\* else, and leaves both maps as they were.
C11_UnusableRoomRefused ==
  JoinNamesNoRoom =>
    /\ sent = <<InvalidRoomNote(last.socket)>>
    /\ rooms = last.rooms
    /\ socketToRoom = last.socketToRoom

\* The part of C11 the code keeps: a room field that is a blank string or is
\* missing is refused with invalid-room and nothing else happens.
BlankRoomRefused ==
  (JoinNamesNoRoom /\ ~OptionalTrim(last.data.obj.room).threw) =>
    /\ sent = <<InvalidRoomNote(last.socket)>>
    /\ rooms = last.rooms
    /\ socketToRoom = last.socketToRoom

-----------------------------------------------------------------------------
(* Properties of the capture pipeline *)

FramesOf(k) == {i \in DOMAIN wire : wire[i].session = k}

ConfigsOf(k) == {i \in DOMAIN wire : wire[i] = ConfigFrame(k)}

\* The pipeline as the client itself sees it: not recording, no getUserMedia
\* call pending, and the recorder it holds neither recording nor stopping.
PipelineIdle ==
  /\ ~isRecording
  /\ \A k \in DOMAIN sessions : sessions[k].phase # "acquiring"
  /\ recorderRef # NoRef => sessions[recorderRef].phase \notin {"recording", "stopping"}

\* C14: a session that was asked to stop while its getUserMedia call was
\* pending never records, never holds the device after the call resolved,
\* and puts no audio-config and no chunk on the wire.
C14_StopWhileAcquiringCancels ==
  \A k \in DOMAIN sessions :
    sessions[k].stopAsked =>
      /\ sessions[k].phase \in {"acquiring", "denied", "failed"}
      /\ ~sessions[k].live
      /\ FramesOf(k) = {}

\* C15: no start intent made while a session is acquiring, recording or
\* stopping begins a session of its own (a second getUserMedia call, a second
\* recorder, a second audio-config).
C15_StartWhileBusyIsNoOp ==
  \A k \in DOMAIN sessions : ~sessions[k].startedBusy

\* C16: whenever the pipeline is idle, no MediaStream it acquired has live
\* tracks.
C16_IdleHoldsNoDevice ==
  PipelineIdle => \A k \in DOMAIN sessions : ~sessions[k].live

\* Every session that is over has released its own stream.
EndedSessionReleased ==
  \A k \in DOMAIN sessions : ~SessionBusy(sessions, k) => ~sessions[k].live

\* With no session begun beside another, the idle pipeline holds no device.
LoneSessionsReleased ==
  (PipelineIdle /\ C15_StartWhileBusyIsNoOp) =>
    \A k \in DOMAIN sessions : ~sessions[k].live

\* C17: every session began with the transport open and at least one
\* supported encoding format, whatever the source of the start intent.
C17_StartNeedsTransportAndFormat ==
  \A k \in DOMAIN sessions :
    sessions[k].startedOpen /\ sessions[k].startedWithFormat

\* The transport half of the guard.
StartNeedsTransport == \A k \in DOMAIN sessions : sessions[k].startedOpen

\* C18: a session puts at most one audio-config on the wire, and every chunk
\* of a session on the wire comes after that session's audio-config.
C18_ConfigBeforeEveryChunk ==
  \A k \in DOMAIN sessions :
    /\ Cardinality(ConfigsOf(k)) <= 1
    /\ \A i \in DOMAIN wire :
         wire[i] = ChunkFrame(k) => \E j \in 1..(i - 1) : wire[j] = ConfigFrame(k)

\* While the transport stays open from the grant on, the config is first.
AtMostOneConfig == \A k \in DOMAIN sessions : Cardinality(ConfigsOf(k)) <= 1

-----------------------------------------------------------------------------
(* Properties of the playback queue and of the path from sender to player *)

Playing == {i \in DOMAIN playQueue : playQueue[i].state = "playing"}

\* Slot i was enqueued before slot j and both began to play.
PlayedInQueueOrder ==
  \A a, b \in DOMAIN played :
    a < b => \E i, j \in DOMAIN playQueue :
               i < j /\ playQueue[i].chunk = played[a] /\ playQueue[j].chunk = played[b]

\* C12: at most one chunk is playing; a chunk's callback has run only if
\* every chunk enqueued before it is settled (ended, failed or skipped); and
\* the chunks began to play in the order of their arrival.
C12_OnePlayingInOrder ==
  /\ Cardinality(Playing) <= 1
  /\ \A i, j \in DOMAIN playQueue :
       (i < j /\ playQueue[j].state # "waiting") =>
         playQueue[i].state \notin {"waiting", "playing"}
  /\ PlayedInQueueOrder

\* The second chunk plays after the first one ended.
C12_SecondAfterFirst ==
  /\ Len(playQueue) >= 2
  /\ playQueue[1].state = "ended"
  /\ playQueue[2].state = "playing"
  /\ played = <<playQueue[1].chunk, playQueue[2].chunk>>

\* C13: whatever step of a chunk fails, its promise is fulfilled, so no
\* promise of the chain is ever rejected and no chunk is skipped.
C13_FailedSlotStillResolves ==
  \A i \in DOMAIN playQueue : ~Rejected(playQueue[i])

\* After an error event or a rejected play() the next chunk has had its turn.
ResolvedFailureFreesNext ==
  \A i \in DOMAIN playQueue :
    (playQueue[i].state \in {"errored", "refused"} /\ i < Len(playQueue)) =>
      playQueue[i + 1].state # "waiting"

\* C19: every chunk was given the mime type of the last audio-config that
\* arrived before it, and the local default only if none had arrived.
C19_ChunkUsesLatestConfig ==
  \A i \in DOMAIN playQueue :
    playQueue[i].mime = IF playQueue[i].config = NoConfig THEN BlobType("")
                        ELSE playQueue[i].config

\* Once the effect has run, the ref holds the last audio-config.
SyncedRefIsLatest ==
  incomingMetaRef = incomingMeta =>
    IF heard = NoConfig THEN incomingMetaRef = "" ELSE incomingMetaRef = heard

\* C20: the chunks that began to play are chunks the sender sent, each at
\* most once, in the order in which they were sent.
C20_PlayedInSendingOrder ==
  /\ \A a \in DOMAIN played : \E n \in 1..chunksSent : played[a] = Chunk(n)
  /\ \A a, b \in DOMAIN played :
       a < b => \E m, n \in 1..chunksSent :
                  m < n /\ played[a] = Chunk(m) /\ played[b] = Chunk(n)

\* Two chunks went through the relay and began to play in order.
C20_BothPlayedInOrder == played = <<Chunk(1), Chunk(2)>>

\* A chunk sent while the sender was out of the room is lost, the next plays.
LaterChunkPlayedAlone == played = <<Chunk(2)>> /\ downlink = <<>> /\ uplink = <<>>

-----------------------------------------------------------------------------
(* Consistency of the two maps of the registry *)

\* Every room id either map knows.
KnownRooms == DOMAIN rooms \cup {socketToRoom[c] : c \in DOMAIN socketToRoom}

\* C21: after every event handler, socketToRoom maps connection c to room r
\* if and only if rooms has r and c is a member of rooms[r].
C21_MapsConsistent ==
  \A c \in Sockets : \A r \in KnownRooms :
    (MapHas(socketToRoom, c) /\ socketToRoom[c] = r)
      <=> (MapHas(rooms, r) /\ c \in Range(rooms[r]))

\* A member of a shared room has just moved to another room: both maps were
\* rewritten by the leave and by the join of one handler.
C21_MovedOutOfSharedRoom ==
  /\ NamesRoom(last)
  /\ MapHas(last.socketToRoom, last.socket)
  /\ last.socketToRoom[last.socket] # CleanRoomOf(last)
  /\ Cardinality(MembersOf(last.rooms, last.socketToRoom[last.socket])) = 2
  /\ MapHas(socketToRoom, last.socket)
  /\ socketToRoom[last.socket] = CleanRoomOf(last)
  /\ Cardinality(DOMAIN rooms) = 2

====
